---- MODULE Spec2Model ----
(***************************************************************************)
(* Model of casadi/core/function/map.cpp: the Map ("serial") and MapOmp    *)
(* ("openmp") function nodes, their factory MapBase::create, their init,   *)
(* their evaluation loops, the loops emitted by generateBody, and the      *)
(* derivative constructors get_forward_old / get_reverse_old.              *)
(***************************************************************************)
EXTENDS Integers, Sequences, FiniteSets, TLC

(* ---------------------------- bounds ----------------------------------- *)
\* largest replica count n_ of a node that is evaluated
MaxN == 2
\* largest replica count n_ handed to MapBase::create in the factory model
MaxCreateN == 3
\* longest chain of get_forward_old / get_reverse_old requests explored
MaxDepth == 2
\* largest derivative order (nfwd / nadj) requested
MaxOrder == 2
\* largest number of init calls made on one node
MaxInits == 2

VARIABLES
    op,       \* the node under evaluation: cls, f_, n_, n_in_, n_out_, sizes
    build,    \* how map.cpp and the emitted code were compiled
    argbuf,   \* the caller's arg array: n_in pointers, then work slots
    resbuf,   \* the caller's res array: n_out pointers, then work slots
    iwbuf,    \* the caller's iw array
    wbuf,     \* the caller's w array
    indata,   \* the input arrays arg[j] points to (n blocks of nnz_in(j))
    outdata,  \* the output arrays res[j] points to (n blocks of nnz_out(j))
    entry,    \* entry point taken: eval, eval_sx, sp_fwd, sp_rev, generated
    pcs,      \* per replica: idle, called, loaded, done, failed
    calls,    \* per replica: the frame the base function was invoked with
    status,   \* idle, running, returned, threw, crashed, ret0, ret1
    cur,      \* factory model: the node the last request returned
    prev,     \* factory model: the node a derivative was requested of
    root,     \* factory model: the node MapBase::create returned
    req,      \* factory model: the last request and what it did
    depth     \* factory model: derivative requests since create

evalvars == <<op, build, argbuf, resbuf, iwbuf, wbuf, indata, outdata,
              entry, pcs, calls, status>>
nodevars == <<cur, prev, root, req, depth>>
vars == <<op, build, argbuf, resbuf, iwbuf, wbuf, indata, outdata,
          entry, pcs, calls, status, cur, prev, root, req, depth>>

(* ------------------------- base functions ------------------------------ *)
\* The function being mapped (f_): only what map.cpp asks of it.  deriv is
\* the chain of forward/reverse requests that produced it.
FA == [id |-> "A", n_in |-> 2, n_out |-> 2, nnz_in |-> <<2, 1>>,
       nnz_out |-> <<1, 2>>, sz_arg |-> 2, sz_res |-> 2, sz_iw |-> 1,
       sz_w |-> 1, deriv |-> <<>>]
FB == [id |-> "B", n_in |-> 1, n_out |-> 1, nnz_in |-> <<3>>,
       nnz_out |-> <<2>>, sz_arg |-> 1, sz_res |-> 1, sz_iw |-> 2,
       sz_w |-> 2, deriv |-> <<>>]
BaseUnits == {FA, FB}

\* f_.forward(nfwd) and f_.reverse(nadj): a new function; its shape is the
\* differentiation code's business, the model records only the request.
Forward(f, nfwd) == [f EXCEPT !.deriv = Append(@, <<"forward", nfwd>>)]
Reverse(f, nadj) == [f EXCEPT !.deriv = Append(@, <<"reverse", nadj>>)]

\* values of one array element
Values == {0, 1}

Max(a, b) == IF a >= b THEN a ELSE b

(* ------------------------ nodes, init, create -------------------------- *)
NoNode == [cls |-> "none"]

\* MapBase::MapBase: f_(f), n_in_(f.n_in()), n_out_(f.n_out()), n_(n); no
\* work vector has been asked for yet.
MapBaseCtor(cls, f, n) ==
    [cls |-> cls, f |-> f, n |-> n, n_in |-> f.n_in, n_out |-> f.n_out,
     sz_arg |-> 0, sz_res |-> 0, sz_iw |-> 0, sz_w |-> 0, inits |-> 0]

\* FunctionInternal::alloc_arg / alloc_res / alloc_iw / alloc_w: a
\* requirement is registered, the largest one asked for stands.
Alloc(cur_sz, sz) == Max(cur_sz, sz)

\* MapBase::init (FunctionInternal::init): derived quantities only.
MapBaseInit(node) == [node EXCEPT !.n_in = node.f.n_in, !.n_out = node.f.n_out]

\* MapOmp::init with the factor n_ forgotten
MapOmpInitUnscaled(node) ==
    LET b == MapBaseInit(node) IN
    [b EXCEPT !.sz_arg = Alloc(@, b.f.sz_arg),
              !.sz_res = Alloc(@, b.f.sz_res),
              !.sz_w   = Alloc(@, b.f.sz_w),
              !.sz_iw  = Alloc(@, b.f.sz_iw)]

\* Map::init
MapInit(node) ==
    LET b == MapBaseInit(node) IN
    [b EXCEPT !.sz_arg = Alloc(@, b.f.sz_arg),
              !.sz_res = Alloc(@, b.f.sz_res),
              !.sz_w   = Alloc(@, b.f.sz_w),
              !.sz_iw  = Alloc(@, b.f.sz_iw)]

\* MapOmp::init
MapOmpInit(node) ==
    LET b == MapInit(node) IN
    [b EXCEPT !.sz_arg = Alloc(@, b.f.sz_arg * b.n),
              !.sz_res = Alloc(@, b.f.sz_res * b.n),
              !.sz_w   = Alloc(@, b.f.sz_w * b.n),
              !.sz_iw  = Alloc(@, b.f.sz_iw * b.n)]

\* virtual init
NodeInit(node) ==
    LET d == IF node.cls = "MapOmp" THEN MapOmpInit(node) ELSE MapInit(node)
    IN [d EXCEPT !.inits = @ + 1]

\* ret->construct(opts): runs init once.
Construct(node) == NodeInit(node)

\* MapBase::create falling back to Map on a name it does not know
CreateOutcomeDefaulting(parallelization, f, n) ==
    IF parallelization = "openmp"
    THEN [made |-> "MapOmp", threw |-> FALSE, constructs |-> 1,
          ret |-> Construct(MapBaseCtor("MapOmp", f, n))]
    ELSE [made |-> "Map", threw |-> FALSE, constructs |-> 1,
          ret |-> Construct(MapBaseCtor("Map", f, n))]

\* MapBase::create: the outcome of one call.  made is what operator new
\* built, threw whether casadi_error was reached, constructs how often
\* ret->construct(opts) ran, ret the returned node.
CreateOutcome(parallelization, f, n) ==
    IF parallelization = "serial"
    THEN [made |-> "Map", threw |-> FALSE, constructs |-> 1,
          ret |-> Construct(MapBaseCtor("Map", f, n))]
    ELSE IF parallelization = "openmp"
    THEN [made |-> "MapOmp", threw |-> FALSE, constructs |-> 1,
          ret |-> Construct(MapBaseCtor("MapOmp", f, n))]
    ELSE [made |-> "none", threw |-> TRUE, constructs |-> 0, ret |-> NoNode]

\* parallelization(): the name create knows the node's class by.
Parallelization(node) == IF node.cls = "MapOmp" THEN "openmp" ELSE "serial"

\* Function::map(name, parallelization, n, opts): goes through create.
FunctionMap(f, parallelization, n) == CreateOutcome(parallelization, f, n)

\* Map::get_forward_old passing "serial" instead of parallelization()
GetForwardOldSerial(node, nfwd) ==
    LET df == Forward(node.f, nfwd) IN
    FunctionMap(df, "serial", node.n)

\* Map::get_forward_old
GetForwardOld(node, nfwd) ==
    LET df == Forward(node.f, nfwd) IN
    FunctionMap(df, Parallelization(node), node.n)

\* Map::get_reverse_old
GetReverseOld(node, nadj) ==
    LET df == Reverse(node.f, nadj) IN
    FunctionMap(df, Parallelization(node), node.n)

(* ------------------------------ pointers ------------------------------- *)
Null == [kind |-> "null", id |-> 0, off |-> 0]
InPtr(j) == [kind |-> "in", id |-> j, off |-> 0]
OutPtr(j) == [kind |-> "out", id |-> j, off |-> 0]

\* p + k.  On a null pointer this is the address k elements past zero: not
\* null unless k = 0, and not the address of any array.
PtrAdd(p, k) ==
    IF p.kind = "null"
    THEN IF k = 0 THEN Null ELSE [kind |-> "wild", id |-> 0, off |-> k]
    ELSE [p EXCEPT !.off = @ + k]

(* ------------------ frames handed to the base function ----------------- *)
\* A frame: where the replica's pointer arrays start in arg and res, the
\* pointers written there, and the offsets of its iw and w.
NoFrame == [argBase |-> -1]

\* Map::evalGen with the null test on res[j] left out
MapEvalGenFrameResNoTest(i) ==
    [argBase |-> op.n_in,
     resBase |-> op.n_out,
     args |-> [j \in 1..op.n_in |->
                 IF argbuf[j-1] # Null
                 THEN PtrAdd(argbuf[j-1], i * op.f.nnz_in[j]) ELSE Null],
     ress |-> [j \in 1..op.n_out |->
                 PtrAdd(resbuf[j-1], i * op.f.nnz_out[j])],
     iw |-> 0,
     w |-> 0]

\* Map::evalGen, loop body for replica i
MapEvalGenFrame(i) ==
    [argBase |-> op.n_in,
     resBase |-> op.n_out,
     args |-> [j \in 1..op.n_in |->
                 IF argbuf[j-1] # Null
                 THEN PtrAdd(argbuf[j-1], i * op.f.nnz_in[j]) ELSE Null],
     ress |-> [j \in 1..op.n_out |->
                 IF resbuf[j-1] # Null
                 THEN PtrAdd(resbuf[j-1], i * op.f.nnz_out[j]) ELSE Null],
     iw |-> 0,
     w |-> 0]

\* Map::sp_rev, loop body for replica i
MapSpRevFrame(i) ==
    [argBase |-> op.n_in,
     resBase |-> op.n_out,
     args |-> [j \in 1..op.n_in |->
                 IF argbuf[j-1] # Null
                 THEN PtrAdd(argbuf[j-1], i * op.f.nnz_in[j]) ELSE Null],
     ress |-> [j \in 1..op.n_out |->
                 IF resbuf[j-1] # Null
                 THEN PtrAdd(resbuf[j-1], i * op.f.nnz_out[j]) ELSE Null],
     iw |-> 0,
     w |-> 0]

\* the loop of MapOmp::eval handing every replica the same iw and w
MapOmpLoopFrameSharedW(i) ==
    [argBase |-> op.n_in + op.f.sz_arg * i,
     resBase |-> op.n_out + op.f.sz_res * i,
     args |-> [j \in 1..op.n_in |->
                 PtrAdd(argbuf[j-1], i * op.f.nnz_in[j])],
     ress |-> [j \in 1..op.n_out |->
                 IF resbuf[j-1] # Null
                 THEN PtrAdd(resbuf[j-1], i * op.f.nnz_out[j]) ELSE Null],
     iw |-> 0,
     w |-> 0]

\* MapOmp::eval, the loop of the #else branch, body for replica i
MapOmpLoopFrame(i) ==
    [argBase |-> op.n_in + op.f.sz_arg * i,
     resBase |-> op.n_out + op.f.sz_res * i,
     args |-> [j \in 1..op.n_in |->
                 PtrAdd(argbuf[j-1], i * op.f.nnz_in[j])],
     ress |-> [j \in 1..op.n_out |->
                 IF resbuf[j-1] # Null
                 THEN PtrAdd(resbuf[j-1], i * op.f.nnz_out[j]) ELSE Null],
     iw |-> i * op.f.sz_iw,
     w |-> i * op.f.sz_w]

\* Build configurations.  WITH_OPENMP: the macro is defined.  "plain": it
\* is not and the compiler ignores the omp pragma.  "pragma_only": it is
\* not, yet the compiler honours the pragma (which the macro does not
\* guard).
Builds == {"WITH_OPENMP", "plain", "pragma_only"}

\* MapOmp::eval: #ifdef WITH_OPENMP it returns Map::eval, else its own loop
MapOmpEvalFrame(i) ==
    IF build = "WITH_OPENMP" THEN MapEvalGenFrame(i) ELSE MapOmpLoopFrame(i)

\* virtual eval: Map::eval calls evalGen
EvalFrame(i) ==
    IF op.cls = "MapOmp" THEN MapOmpEvalFrame(i) ELSE MapEvalGenFrame(i)

\* Map::generateBody: the loop body it emits, for replica i
GenMapFrame(i) ==
    [argBase |-> op.n_in,
     resBase |-> op.n_out,
     args |-> [j \in 1..op.n_in |->
                 IF argbuf[j-1] # Null
                 THEN PtrAdd(argbuf[j-1], i * op.f.nnz_in[j]) ELSE Null],
     ress |-> [j \in 1..op.n_out |->
                 IF resbuf[j-1] # Null
                 THEN PtrAdd(resbuf[j-1], i * op.f.nnz_out[j]) ELSE Null],
     iw |-> 0,
     w |-> 0]

\* MapOmp::generateBody: the loop body it emits, for replica i
GenMapOmpFrame(i) ==
    [argBase |-> op.n_in + op.f.sz_arg * i,
     resBase |-> op.n_out + op.f.sz_res * i,
     args |-> [j \in 1..op.n_in |->
                 PtrAdd(argbuf[j-1], i * op.f.nnz_in[j])],
     ress |-> [j \in 1..op.n_out |->
                 IF resbuf[j-1] # Null
                 THEN PtrAdd(resbuf[j-1], i * op.f.nnz_out[j]) ELSE Null],
     iw |-> i * op.f.sz_iw,
     w |-> i * op.f.sz_w]

\* virtual generateBody
GenFrame(i) ==
    IF op.cls = "MapOmp" THEN GenMapOmpFrame(i) ELSE GenMapFrame(i)

\* the frame replica i is invoked with under the entry point taken
FrameOf(i) ==
    CASE entry = "eval"      -> EvalFrame(i)
      [] entry = "eval_sx"   -> MapEvalGenFrame(i)
      [] entry = "sp_fwd"    -> MapEvalGenFrame(i)
      [] entry = "sp_rev"    -> MapSpRevFrame(i)
      [] entry = "generated" -> GenFrame(i)

(* ----------------- the base function, as map.cpp sees it --------------- *)
\* A block is what one replica reads: blk[j][k], input j, element k.
\* The function is pure: it leaves a weighted sum of its inputs in w[0] and
\* its first input element in iw[0] (its use of the work vectors), then
\* writes every wanted output from those two.
Weight(j, k) == 3 * (j - 1) + k + 1

RECURSIVE SumPairs(_, _)
SumPairs(S, blk) ==
    IF S = {} THEN 0
    ELSE LET x == CHOOSE y \in S : TRUE
         IN blk[x[1]][x[2]] * Weight(x[1], x[2]) + SumPairs(S \ {x}, blk)

FWork(f, blk) ==
    SumPairs({<<j, k>> \in (1..f.n_in) \X (0..3) : k < f.nnz_in[j]}, blk)
FFlag(f, blk) == blk[1][0]
FOut(wv, iwv, j, k) == wv + 7 * iwv + 10 * j + k

\* the function applied to a block, with no map in between
FApply(f, blk) ==
    [j \in 1..f.n_out |->
       [k \in 0..(f.nnz_out[j] - 1) |-> FOut(FWork(f, blk), FFlag(f, blk), j, k)]]

\* reading element k through pointer p: a null input reads as zero, a wild
\* pointer reads whatever g is
Deref(p, k, g) ==
    CASE p.kind = "in"   -> indata[p.id][p.off + k]
      [] p.kind = "null" -> 0
      [] OTHER           -> g

(* ------------------------- calling the node ---------------------------- *)
Replicas == 0..(op.n - 1)

\* Whether the loop taken runs its replicas one after the other, in index
\* order.  The loops of Map do; so does MapOmp::eval unless the compiler
\* honours its pragma; the loop MapOmp::generateBody emits carries the
\* pragma, so whoever compiles it decides.
Sequential ==
    CASE entry = "generated" -> op.cls = "Map"
      [] entry = "eval"      -> op.cls = "Map" \/ build # "pragma_only"
      [] OTHER               -> TRUE

MayStart(i) == Sequential => \A k \in 0..(i - 1) : pcs[k] = "done"

Enter(e) ==
    /\ status = "idle"
    /\ status' = "running"
    /\ entry' = e
    /\ UNCHANGED <<op, build, argbuf, resbuf, iwbuf, wbuf, indata, outdata,
                   pcs, calls>>
    /\ UNCHANGED nodevars

\* Map::eval / MapOmp::eval
Eval == Enter("eval")
\* Map::eval_sx
EvalSX == Enter("eval_sx")
\* Map::sp_fwd
SpFwd == Enter("sp_fwd")
\* Map::sp_rev
SpRev == Enter("sp_rev")
\* running the function generateBody emitted
RunGenerated == Enter("generated")

\* One pass of the loop body up to the call: the replica's pointers are
\* written to its slots of arg and res and the base function is entered.
Setup(i) ==
    /\ status = "running"
    /\ pcs[i] = "idle"
    /\ MayStart(i)
    /\ LET fr == FrameOf(i) IN
       /\ argbuf' = [s \in DOMAIN argbuf |->
                       IF s - fr.argBase + 1 \in 1..op.n_in
                       THEN fr.args[s - fr.argBase + 1] ELSE argbuf[s]]
       /\ resbuf' = [s \in DOMAIN resbuf |->
                       IF s - fr.resBase + 1 \in 1..op.n_out
                       THEN fr.ress[s - fr.resBase + 1] ELSE resbuf[s]]
       /\ calls' = [calls EXCEPT ![i] = fr]
    /\ pcs' = [pcs EXCEPT ![i] = "called"]
    /\ UNCHANGED <<op, build, iwbuf, wbuf, indata, outdata, entry, status>>
    /\ UNCHANGED nodevars

HasWild(i) ==
    \E j \in 1..op.n_in : argbuf[calls[i].argBase + j - 1].kind = "wild"

\* The base function reads its inputs through the pointers of its frame
\* and fills its work vectors.
FLoad(i) ==
    /\ status = "running"
    /\ pcs[i] = "called"
    /\ entry # "sp_rev"
    /\ LET fr == calls[i]
           G == IF HasWild(i)
                THEN [1..op.n_in -> [0..2 -> Values]]
                ELSE {[j \in 1..op.n_in |-> [k \in 0..2 |-> 0]]}
       IN \E g \in G :
            LET blk == [j \in 1..op.n_in |->
                          [k \in 0..(op.f.nnz_in[j] - 1) |->
                             Deref(argbuf[fr.argBase + j - 1], k, g[j][k])]]
            IN /\ wbuf' = [wbuf EXCEPT ![fr.w] = FWork(op.f, blk)]
               /\ iwbuf' = [iwbuf EXCEPT ![fr.iw] = FFlag(op.f, blk)]
    /\ pcs' = [pcs EXCEPT ![i] = "loaded"]
    /\ UNCHANGED <<op, build, argbuf, resbuf, indata, outdata, entry, calls,
                   status>>
    /\ UNCHANGED nodevars

\* The base function writes every output it was given a pointer for.
FStore(i) ==
    /\ status = "running"
    /\ pcs[i] = "loaded"
    /\ LET fr == calls[i]
           rp(j) == resbuf[fr.resBase + j - 1]
           hit(b, x) == {j \in 1..op.n_out :
                           /\ rp(j).kind = "out" /\ rp(j).id = b
                           /\ x - rp(j).off \in 0..(op.f.nnz_out[j] - 1)}
       IN outdata' =
            [b \in DOMAIN outdata |->
               [x \in DOMAIN outdata[b] |->
                  IF hit(b, x) = {} THEN outdata[b][x]
                  ELSE LET j == CHOOSE jj \in hit(b, x) : TRUE
                       IN FOut(wbuf[fr.w], iwbuf[fr.iw], j, x - rp(j).off)]]
    /\ pcs' = [pcs EXCEPT ![i] = "done"]
    /\ UNCHANGED <<op, build, argbuf, resbuf, iwbuf, wbuf, indata, entry,
                   calls, status>>
    /\ UNCHANGED nodevars

\* f_->sp_rev: the reverse propagation of the base function; what it does
\* to the dependency words is not modelled.
FSpRev(i) ==
    /\ status = "running"
    /\ pcs[i] = "called"
    /\ entry = "sp_rev"
    /\ pcs' = [pcs EXCEPT ![i] = "done"]
    /\ UNCHANGED <<op, build, argbuf, resbuf, iwbuf, wbuf, indata, outdata,
                   entry, calls, status>>
    /\ UNCHANGED nodevars

\* Reading through a wild pointer may also end the process.
FSegv(i) ==
    /\ status = "running"
    /\ pcs[i] = "called"
    /\ entry # "sp_rev"
    /\ HasWild(i)
    /\ status' = "crashed"
    /\ UNCHANGED <<op, build, argbuf, resbuf, iwbuf, wbuf, indata, outdata,
                   entry, pcs, calls>>
    /\ UNCHANGED nodevars

\* In process every evaluation entry point returns void: the base function
\* reports failure by throwing.  No loop of map.cpp catches anything, so
\* the exception leaves the loop and the entry point.
OnThrow == "threw"

FThrow(i) ==
    /\ status = "running"
    /\ entry # "generated"
    /\ pcs[i] \in {"called", "loaded"}
    /\ pcs' = [pcs EXCEPT ![i] = "failed"]
    /\ status' = OnThrow
    /\ UNCHANGED <<op, build, argbuf, resbuf, iwbuf, wbuf, indata, outdata,
                   entry, calls>>
    /\ UNCHANGED nodevars

\* Map::generateBody emitting the call without the test of its status
GenMapOnStatusIgnored(st) == "running"

\* Map::generateBody emits: if (f(arg1, res1, iw, w)) return 1;
GenMapOnStatus(st) == IF st # 0 THEN "ret1" ELSE "running"
\* MapOmp::generateBody emits: f(arg_i, res_i, iw_i, w_i);
GenMapOmpOnStatus(st) == "running"

\* In the emitted code the base function returns its status.
FStatus(i) ==
    /\ status = "running"
    /\ entry = "generated"
    /\ pcs[i] \in {"called", "loaded"}
    /\ pcs' = [pcs EXCEPT ![i] = "failed"]
    /\ status' = IF op.cls = "MapOmp" THEN GenMapOmpOnStatus(1)
                 ELSE GenMapOnStatus(1)
    /\ UNCHANGED <<op, build, argbuf, resbuf, iwbuf, wbuf, indata, outdata,
                   entry, calls>>
    /\ UNCHANGED nodevars

\* The loop has run out: the entry point returns; the emitted function
\* falls off its body and returns 0.
Return ==
    /\ status = "running"
    /\ \A i \in Replicas : pcs[i] \in {"done", "failed"}
    /\ status' = IF entry = "generated" THEN "ret0" ELSE "returned"
    /\ UNCHANGED <<op, build, argbuf, resbuf, iwbuf, wbuf, indata, outdata,
                   entry, pcs, calls>>
    /\ UNCHANGED nodevars

(* --------------------------- initial states ---------------------------- *)
\* nodes as MapBase::create returns them
Created ==
    {CreateOutcome(p, f, n).ret :
        p \in {"serial", "openmp"}, f \in BaseUnits, n \in 1..MaxN}

\* element offset of input j in the flat enumeration of all input elements
RECURSIVE FlatBase(_, _, _)
FlatBase(f, n, j) ==
    IF j = 1 THEN 0 ELSE FlatBase(f, n, j - 1) + n * f.nnz_in[j - 1]

NodeIdle ==
    /\ cur = NoNode /\ prev = NoNode /\ root = NoNode
    /\ req = [kind |-> "none"] /\ depth = 0

\* The caller's frame for a call of node o: nullA / nullR are the inputs
\* and outputs passed as null, d the input elements.
CallerFrame(o, nullA, nullR, d) ==
    /\ op = o
    /\ argbuf = [s \in 0..(o.n_in + o.sz_arg - 1) |->
                   IF s < o.n_in /\ (s + 1) \notin nullA
                   THEN InPtr(s + 1) ELSE Null]
    /\ resbuf = [s \in 0..(o.n_out + o.sz_res - 1) |->
                   IF s < o.n_out /\ (s + 1) \notin nullR
                   THEN OutPtr(s + 1) ELSE Null]
    /\ iwbuf = [s \in 0..(o.sz_iw - 1) |-> 0]
    /\ wbuf = [s \in 0..(o.sz_w - 1) |-> 0]
    /\ indata = [j \in 1..o.n_in |->
                   [x \in 0..(o.n * o.f.nnz_in[j] - 1) |->
                      d[FlatBase(o.f, o.n, j) + x]]]
    /\ outdata = [j \in 1..o.n_out |->
                    [x \in 0..(o.n * o.f.nnz_out[j] - 1) |-> -1]]
    /\ entry = "none"
    /\ pcs = [i \in 0..(o.n - 1) |-> "idle"]
    /\ calls = [i \in 0..(o.n - 1) |-> NoFrame]
    /\ status = "idle"

TotalIn(o) == FlatBase(o.f, o.n, o.n_in + 1)

\* every entry point, any input or output possibly null, inputs all zero
InitFrame ==
    /\ build \in Builds
    /\ \E o \in Created :
         \E nullA \in SUBSET (1..o.n_in), nullR \in SUBSET (1..o.n_out) :
            CallerFrame(o, nullA, nullR, [x \in 0..(TotalIn(o) - 1) |-> 0])
    /\ NodeIdle

\* numeric evaluation on every input over Values, all inputs present
InitNum ==
    /\ build \in Builds
    /\ \E o \in Created :
         \E nullR \in SUBSET (1..o.n_out) :
            \E d \in [0..(TotalIn(o) - 1) -> Values] :
               CallerFrame(o, {}, nullR, d)
    /\ NodeIdle

NextFrame ==
    \/ Eval
    \/ EvalSX
    \/ SpFwd
    \/ SpRev
    \/ RunGenerated
    \/ \E i \in Replicas : Setup(i)
    \/ \E i \in Replicas : FLoad(i)
    \/ \E i \in Replicas : FStore(i)
    \/ \E i \in Replicas : FSpRev(i)
    \/ \E i \in Replicas : FSegv(i)
    \/ \E i \in Replicas : FThrow(i)
    \/ \E i \in Replicas : FStatus(i)
    \/ Return

NextNum ==
    \/ Eval
    \/ \E i \in Replicas : Setup(i)
    \/ \E i \in Replicas : FLoad(i)
    \/ \E i \in Replicas : FStore(i)
    \/ Return

SpecFrame == InitFrame /\ [][NextFrame]_vars
SpecNum == InitNum /\ [][NextNum]_vars

(* ------------------- the factory and the derivatives ------------------- *)
\* strategy names a caller may pass to MapBase::create
StrategyNames == {"serial", "openmp", "parallel", "gpu"}

EvalIdle ==
    /\ op = NoNode /\ build = "plain"
    /\ argbuf = <<>> /\ resbuf = <<>> /\ iwbuf = <<>> /\ wbuf = <<>>
    /\ indata = <<>> /\ outdata = <<>>
    /\ entry = "none" /\ pcs = <<>> /\ calls = <<>> /\ status = "idle"

InitNode == EvalIdle /\ NodeIdle

\* MapBase::create(name, parallelization, f, n, opts)
Create(p, f, n) ==
    /\ LET o == CreateOutcome(p, f, n) IN
       /\ req' = [kind |-> "create", name |-> p, f |-> f, n |-> n, order |-> 0,
                  made |-> o.made, threw |-> o.threw,
                  constructs |-> o.constructs]
       /\ cur' = o.ret
       /\ root' = o.ret
    /\ prev' = NoNode
    /\ depth' = 0
    /\ UNCHANGED evalvars

\* init(opts) called again on the node, same options
ReInit ==
    /\ cur # NoNode
    /\ cur.inits < MaxInits
    /\ cur' = NodeInit(cur)
    /\ prev' = cur
    /\ req' = [kind |-> "init", name |-> Parallelization(cur), f |-> cur.f,
               n |-> cur.n, order |-> 0, made |-> "none", threw |-> FALSE,
               constructs |-> 0]
    /\ UNCHANGED <<root, depth>>
    /\ UNCHANGED evalvars

\* get_forward_old(name, nfwd, opts) on the current node
GetForward(nfwd) ==
    /\ cur # NoNode
    /\ depth < MaxDepth
    /\ LET o == GetForwardOld(cur, nfwd) IN
       /\ req' = [kind |-> "forward", name |-> Parallelization(cur),
                  f |-> cur.f, n |-> cur.n, order |-> nfwd, made |-> o.made,
                  threw |-> o.threw, constructs |-> o.constructs]
       /\ cur' = o.ret
    /\ prev' = cur
    /\ depth' = depth + 1
    /\ UNCHANGED root
    /\ UNCHANGED evalvars

\* get_reverse_old(name, nadj, opts) on the current node
GetReverse(nadj) ==
    /\ cur # NoNode
    /\ depth < MaxDepth
    /\ LET o == GetReverseOld(cur, nadj) IN
       /\ req' = [kind |-> "reverse", name |-> Parallelization(cur),
                  f |-> cur.f, n |-> cur.n, order |-> nadj, made |-> o.made,
                  threw |-> o.threw, constructs |-> o.constructs]
       /\ cur' = o.ret
    /\ prev' = cur
    /\ depth' = depth + 1
    /\ UNCHANGED root
    /\ UNCHANGED evalvars

NextNode ==
    \/ \E p \in StrategyNames, f \in BaseUnits, n \in 1..MaxCreateN :
          Create(p, f, n)
    \/ ReInit
    \/ \E nfwd \in 1..MaxOrder : GetForward(nfwd)
    \/ \E nadj \in 1..MaxOrder : GetReverse(nadj)

SpecNode == InitNode /\ [][NextNode]_vars

(* ------------------------------- claims -------------------------------- *)
\* the input block of replica i: elements [i*nnz_in(j), (i+1)*nnz_in(j)) of
\* every input j
Block(i) ==
    [j \in 1..op.n_in |->
       [k \in 0..(op.f.nnz_in[j] - 1) |-> indata[j][i * op.f.nnz_in[j] + k]]]

InProcess == {"eval", "eval_sx", "sp_fwd", "sp_rev"}
Failure == {"threw", "ret1"}
Invoked(i) == calls[i] # NoFrame

ParallelEvalUsesOwnSlices ==
    (op # NoNode /\ op.cls = "MapOmp" /\ entry = "eval") =>
      \A i \in Replicas :
        Invoked(i) =>
          /\ calls[i].argBase = op.n_in + i * op.f.sz_arg
          /\ calls[i].resBase = op.n_out + i * op.f.sz_res
          /\ calls[i].iw = i * op.f.sz_iw
          /\ calls[i].w = i * op.f.sz_w
          /\ \A k \in Replicas \ {i} :
               Invoked(k) =>
                 /\ calls[i].argBase + op.f.sz_arg <= calls[k].argBase
                    \/ calls[k].argBase + op.f.sz_arg <= calls[i].argBase
                 /\ calls[i].resBase + op.f.sz_res <= calls[k].resBase
                    \/ calls[k].resBase + op.f.sz_res <= calls[i].resBase
                 /\ calls[i].iw + op.f.sz_iw <= calls[k].iw
                    \/ calls[k].iw + op.f.sz_iw <= calls[i].iw
                 /\ calls[i].w + op.f.sz_w <= calls[k].w
                    \/ calls[k].w + op.f.sz_w <= calls[i].w

\* C3: in every in-process entry point of Map and MapOmp, a replica is
\* invoked with a null pointer in result slot j when the caller's res[j] is
\* null and with res[j] + i*nnz_out(j) otherwise, and that is what its slot
\* of res holds while the replica runs.
NullOutputStaysNull ==
    entry \in InProcess =>
      \A i \in Replicas :
        Invoked(i) =>
          \A j \in 1..op.n_out :
            /\ resbuf[j-1] = Null => calls[i].ress[j] = Null
            /\ resbuf[j-1] # Null =>
                 calls[i].ress[j] =
                   [kind |-> "out", id |-> j, off |-> i * op.f.nnz_out[j]]
            /\ pcs[i] \in {"called", "loaded"} =>
                 resbuf[calls[i].resBase + j - 1] = calls[i].ress[j]

\* C3 witness: replica 1 of the loop of MapOmp::eval runs with one output
\* null and one wanted.
NullOutputStaysNullReached ==
    /\ entry = "eval" /\ op.cls = "MapOmp" /\ build = "plain"
    /\ op.n >= 2 /\ op.n_out = 2
    /\ resbuf[0] = Null /\ resbuf[1] # Null
    /\ pcs[1] = "loaded"

\* C4: in a Map node, in process and in the emitted loop, a replica is
\* invoked only after all replicas below it have completed, and once
\* replica k has failed the call has reported failure and no replica above
\* k has been invoked.
SerialFailureStopsTheLoop ==
    (op # NoNode /\ op.cls = "Map") =>
      /\ \A i \in Replicas :
           pcs[i] # "idle" => \A k \in 0..(i - 1) : pcs[k] = "done"
      /\ \A k \in Replicas :
           pcs[k] = "failed" =>
             /\ status \in Failure
             /\ \A i \in Replicas : i > k => pcs[i] = "idle" /\ ~Invoked(i)

\* C4 witness: replica k < n-1 of the emitted serial loop has failed.
SerialFailureStopsTheLoopReached ==
    /\ op # NoNode /\ op.cls = "Map" /\ entry = "generated"
    /\ \E k \in Replicas : k < op.n - 1 /\ pcs[k] = "failed"
    /\ status = "ret1"

\* C5: in a MapOmp node, in process and in the emitted loop, when the call
\* has ended and exactly one replica failed, every other replica has run
\* and written its block and the call has reported failure.
ParallelFailureIsAggregated ==
    (/\ op # NoNode /\ op.cls = "MapOmp"
     /\ entry \in {"eval", "generated"}
     /\ status \in {"returned", "threw", "ret0", "ret1"}
     /\ Cardinality({i \in Replicas : pcs[i] = "failed"}) = 1) =>
      /\ \A i \in Replicas : pcs[i] # "failed" => pcs[i] = "done"
      /\ status \in Failure

\* C6 as stated: create succeeds exactly for the names serial and parallel
\* and returns a finalized node of the matching strategy; any other name
\* throws, and nothing is built or finalized.
CreateAcceptsSerialAndParallel ==
    req.kind = "create" =>
      /\ req.name \in {"serial", "parallel"} <=> ~req.threw
      /\ req.name = "serial" => cur # NoNode /\ cur.cls = "Map"
      /\ req.name = "parallel" => cur # NoNode /\ cur.cls = "MapOmp"
      /\ ~req.threw => req.constructs = 1
      /\ req.threw => req.made = "none" /\ req.constructs = 0 /\ cur = NoNode

\* C6 amended: create succeeds exactly for the names serial and openmp,
\* returning a Map node for serial and a MapOmp node for openmp, over the
\* given function and replica count, constructed once; every other name,
\* parallel and gpu included, throws, and nothing is built or finalized.
CreateAcceptsSerialAndOpenmp ==
    req.kind = "create" =>
      /\ req.name \in {"serial", "openmp"} <=> ~req.threw
      /\ req.name = "serial" => cur # NoNode /\ cur.cls = "Map"
      /\ req.name = "openmp" => cur # NoNode /\ cur.cls = "MapOmp"
      /\ ~req.threw =>
           /\ req.constructs = 1 /\ req.made = cur.cls
           /\ cur.f = req.f /\ cur.n = req.n
      /\ req.threw => req.made = "none" /\ req.constructs = 0 /\ cur = NoNode

\* C6 witness: create was called with the name gpu and threw.
CreateAcceptsSerialAndOpenmpReached ==
    /\ req.kind = "create" /\ req.name = "gpu" /\ req.threw
    /\ cur = NoNode

\* C7: a derivative request on a node returns a node of the same class
\* and replica count over the derivative of its function, so both equal
\* those of the node create returned; for order 1 forward it is the node
\* create returns for that derivative, count and strategy.
DerivativeKeepsCountAndStrategy ==
    req.kind \in {"forward", "reverse"} =>
      /\ ~req.threw /\ cur # NoNode
      /\ cur.n = prev.n /\ cur.cls = prev.cls
      /\ cur.n = root.n /\ cur.cls = root.cls
      /\ req.kind = "forward" => cur.f = Forward(prev.f, req.order)
      /\ req.kind = "reverse" => cur.f = Reverse(prev.f, req.order)
      /\ (req.kind = "forward" /\ req.order = 1) =>
           cur = CreateOutcome(IF prev.cls = "MapOmp" THEN "openmp"
                               ELSE "serial",
                               Forward(prev.f, 1), prev.n).ret

\* C7 witness: a second derivative request in a row on a MapOmp node with
\* several replicas.
DerivativeKeepsCountAndStrategyReached ==
    /\ req.kind = "forward" /\ depth = 2
    /\ cur # NoNode /\ cur.cls = "MapOmp" /\ cur.n >= 2
    /\ Len(cur.f.deriv) = 2

\* C8: after any number of init calls a Map node's registered sz_arg,
\* sz_res, sz_iw, sz_w are those of its function and a MapOmp node's are n
\* times those; an init call changes none of them.
RegisteredSizesStable ==
    cur # NoNode =>
      /\ LET m == IF cur.cls = "MapOmp" THEN cur.n ELSE 1 IN
           /\ cur.sz_arg = m * cur.f.sz_arg
           /\ cur.sz_res = m * cur.f.sz_res
           /\ cur.sz_iw = m * cur.f.sz_iw
           /\ cur.sz_w = m * cur.f.sz_w
      /\ req.kind = "init" =>
           /\ cur.sz_arg = prev.sz_arg /\ cur.sz_res = prev.sz_res
           /\ cur.sz_iw = prev.sz_iw /\ cur.sz_w = prev.sz_w

\* C8 witness: init has run a second time on a MapOmp node with n = 3.
RegisteredSizesStableReached ==
    /\ req.kind = "init" /\ cur # NoNode
    /\ cur.cls = "MapOmp" /\ cur.n = 3 /\ cur.inits = 2

\* C9: every replica the emitted loop invokes gets the frame the numeric
\* evaluator of the same node gives that replica: the same pointer array
\* bases, the same per-slot pointers and null tests, the same iw and w.
EmittedLayoutMatchesEvaluator ==
    entry = "generated" =>
      \A i \in Replicas : Invoked(i) => calls[i] = EvalFrame(i)

\* C10: in the in-process evaluators of Map and MapOmp, a replica is
\* invoked with a null pointer in argument slot j when the caller's arg[j]
\* is null and with arg[j] + i*nnz_in(j) otherwise.
NullInputStaysNull ==
    entry \in InProcess =>
      \A i \in Replicas :
        Invoked(i) =>
          \A j \in 1..op.n_in :
            /\ argbuf[j-1] = Null => calls[i].args[j] = Null
            /\ argbuf[j-1] # Null =>
                 calls[i].args[j] =
                   [kind |-> "in", id |-> j, off |-> i * op.f.nnz_in[j]]

====
